---- MODULE Spec2Model ----
(***************************************************************************)
(* Store/link cleaning utilities: dedup_por_tienda.py (pandas pipeline),   *)
(* extraer_tienda_links.py (openpyxl scan) and the store comparison of     *)
(* app_links.py.  Strings are sequences of one-character strings so that   *)
(* strip, the regular expressions and the lexicographic sort are computed  *)
(* character by character.                                                 *)
(***************************************************************************)
EXTENDS Integers, Sequences, FiniteSets, TLC

\* Largest number of data rows of an input sheet.
MaxRows == 3

VARIABLES script, pc, err, exists, df, link_col, base, pares_unicos,
          links_por_tienda, resumen, uno_por_tienda, salida,
          ws, fila, pares, diag, df_unique, df_group,
          storesA, storesB, matched, onlyA, onlyB

vars == <<script, pc, err, exists, df, link_col, base, pares_unicos,
          links_por_tienda, resumen, uno_por_tienda, salida,
          ws, fila, pares, diag, df_unique, df_group,
          storesA, storesB, matched, onlyA, onlyB>>

dedupVars == <<df, link_col, base, pares_unicos, links_por_tienda, resumen,
               uno_por_tienda>>
extraerVars == <<ws, fila, pares, diag, df_unique, df_group>>
compareVars == <<storesA, storesB, matched, onlyA, onlyB>>

----------------------------------------------------------------------------
(* Characters and strings                                                  *)

\* Unicode code points of the characters used (Python compares str by them).
CodePoint ==
    "\t" :> 9 @@ "\n" :> 10 @@ " " :> 32 @@ "!" :> 33 @@ "\"" :> 34 @@
    "#" :> 35 @@ "$" :> 36 @@ "%" :> 37 @@ "&" :> 38 @@ "'" :> 39 @@
    "(" :> 40 @@ ")" :> 41 @@ "*" :> 42 @@ "+" :> 43 @@ "," :> 44 @@
    "-" :> 45 @@ "." :> 46 @@ "/" :> 47 @@ "0" :> 48 @@ "1" :> 49 @@
    "2" :> 50 @@ "3" :> 51 @@ "4" :> 52 @@ "5" :> 53 @@ "6" :> 54 @@
    "7" :> 55 @@ "8" :> 56 @@ "9" :> 57 @@ ":" :> 58 @@ ";" :> 59 @@
    "<" :> 60 @@ "=" :> 61 @@ ">" :> 62 @@ "?" :> 63 @@ "@" :> 64 @@
    "A" :> 65 @@ "B" :> 66 @@ "C" :> 67 @@ "D" :> 68 @@ "E" :> 69 @@
    "F" :> 70 @@ "G" :> 71 @@ "H" :> 72 @@ "I" :> 73 @@ "J" :> 74 @@
    "K" :> 75 @@ "L" :> 76 @@ "M" :> 77 @@ "N" :> 78 @@ "O" :> 79 @@
    "P" :> 80 @@ "Q" :> 81 @@ "R" :> 82 @@ "S" :> 83 @@ "T" :> 84 @@
    "U" :> 85 @@ "V" :> 86 @@ "W" :> 87 @@ "X" :> 88 @@ "Y" :> 89 @@
    "Z" :> 90 @@ "[" :> 91 @@ "\\" :> 92 @@ "]" :> 93 @@ "^" :> 94 @@
    "_" :> 95 @@ "a" :> 97 @@ "b" :> 98 @@ "c" :> 99 @@
    "d" :> 100 @@ "e" :> 101 @@ "f" :> 102 @@ "g" :> 103 @@ "h" :> 104 @@
    "i" :> 105 @@ "j" :> 106 @@ "k" :> 107 @@ "l" :> 108 @@ "m" :> 109 @@
    "n" :> 110 @@ "o" :> 111 @@ "p" :> 112 @@ "q" :> 113 @@ "r" :> 114 @@
    "s" :> 115 @@ "t" :> 116 @@ "u" :> 117 @@ "v" :> 118 @@ "w" :> 119 @@
    "x" :> 120 @@ "y" :> 121 @@ "z" :> 122 @@ "{" :> 123 @@ "|" :> 124 @@
    "}" :> 125 @@ "~" :> 126

\* str.isspace() for the characters of the alphabet.
IsSpace(c) == c \in {" ", "\t", "\n"}

\* str.lower() / re.IGNORECASE folding of one ASCII character.
Lower(c) ==
    IF CodePoint[c] >= 65 /\ CodePoint[c] <= 90
    THEN CHOOSE d \in DOMAIN CodePoint : CodePoint[d] = CodePoint[c] + 32
    ELSE c

IsHex(c) ==
    \/ (CodePoint[c] >= 48 /\ CodePoint[c] <= 57)
    \/ (CodePoint[c] >= 65 /\ CodePoint[c] <= 70)
    \/ (CodePoint[c] >= 97 /\ CodePoint[c] <= 102)

RECURSIVE LStrip(_)
LStrip(s) == IF s # <<>> /\ IsSpace(Head(s)) THEN LStrip(Tail(s)) ELSE s

RECURSIVE RStrip(_)
RStrip(s) ==
    IF s # <<>> /\ IsSpace(s[Len(s)]) THEN RStrip(SubSeq(s, 1, Len(s) - 1))
    ELSE s

\* A strip that forgets the right-hand side.
StripLeft(s) == LStrip(s)

\* str.strip(): leading and trailing whitespace removed, the rest untouched.
Strip(s) == RStrip(LStrip(s))

\* Python's < on str: lexicographic by code point, a proper prefix is smaller.
RECURSIVE StrLessFrom(_, _, _)
StrLessFrom(a, b, i) ==
    IF i > Len(b) THEN FALSE
    ELSE IF i > Len(a) THEN TRUE
    ELSE IF a[i] = b[i] THEN StrLessFrom(a, b, i + 1)
    ELSE CodePoint[a[i]] < CodePoint[b[i]]

StrLess(a, b) == StrLessFrom(a, b, 1)

\* s[i:].lower().startswith(p) for a lower-case p.
MatchesAt(s, i, p) ==
    /\ i + Len(p) - 1 <= Len(s)
    /\ \A k \in 1..Len(p) : Lower(s[i + k - 1]) = p[k]

StartsWith(s, p) ==
    /\ Len(p) <= Len(s)
    /\ \A k \in 1..Len(p) : s[k] = p[k]

\* Length of the match of https?:// at position i with re.IGNORECASE, 0 if none.
SchemeLenAt(s, i) ==
    IF MatchesAt(s, i, <<"h", "t", "t", "p", "s", ":", "/", "/">>) THEN 8
    ELSE IF MatchesAt(s, i, <<"h", "t", "t", "p", ":", "/", "/">>) THEN 7
    ELSE 0

\* re.compile(r'https?://', re.IGNORECASE).search(s) is not None
ContainsHttp(s) == \E i \in 1..Len(s) : SchemeLenAt(s, i) > 0

RECURSIVE Join(_, _)
Join(parts, sep) ==
    IF parts = <<>> THEN <<>>
    ELSE IF Len(parts) = 1 THEN parts[1]
    ELSE parts[1] \o sep \o Join(Tail(parts), sep)

SetMin(S) == CHOOSE x \in S : \A y \in S : x <= y

----------------------------------------------------------------------------
(* Cells                                                                   *)

\* A cell: empty (None / NaN), a string, or a number (s is then its str()).
None == [t |-> "none", s |-> <<>>]
Str(s) == [t |-> "str", s |-> s]
Num(s) == [t |-> "num", s |-> s]

\* Series.astype(str) on one value: NaN becomes "nan".
AsStr(cell) == IF cell.t = "none" THEN <<"n", "a", "n">> ELSE cell.s

HttpA == <<"h", "t", "t", "p", ":", "/", "/", "a">>
HttpB == <<"h", "t", "t", "p", ":", "/", "/", "b">>
HttpsC == <<"v", "e", "r", " ", "H", "T", "T", "P", "S", ":", "/", "/", "c">>
StoreAB == <<"A", " ", "B">>
StoreABPadded == <<" ", "A", " ", "B", "\t">>
StoreAWideB == <<"A", " ", " ", "B">>
StoreB == <<"B">>
Blank == <<" ">>
Equis == <<"x">>

----------------------------------------------------------------------------
(* dedup_por_tienda.py                                                     *)

COL_TIENDA == <<"t", "i", "e", "n", "d", "a">>
ColUrlExtraida ==
    <<"i", "d", "_", "v", "i", "s", "i", "t", "a", " ", "(", "U", "R", "L",
      " ", "e", "x", "t", "r", "a", "í", "d", "a", ")">>
ColLink == <<"l", "i", "n", "k">>
ColIdVisita == <<"i", "d", "_", "v", "i", "s", "i", "t", "a">>
ColLink2 == <<"L", "i", "n", "k", "_", "2">>
ColOtra == <<"o", "t", "r", "a">>

PREFER_COLS == <<ColUrlExtraida, ColLink, ColIdVisita>>

\* Sheets the script may be given: the headers, and per column the cell
\* values its rows are drawn from.
Layouts ==
    { [columns |-> <<COL_TIENDA, ColLink>>,
       cells   |-> << {Str(StoreAB), Str(StoreABPadded), Str(StoreAWideB)},
                      {Str(HttpA), Str(HttpB)} >>],
      [columns |-> <<COL_TIENDA, ColLink>>,
       cells   |-> << {None, Str(Blank), Str(StoreAB), Str(StoreB)},
                      {None, Str(Blank), Str(HttpA)} >>],
      [columns |-> <<ColLink, COL_TIENDA, ColUrlExtraida>>,
       cells   |-> << {Str(HttpA)}, {Str(StoreAB), Str(Blank)},
                      {None, Str(HttpB)} >>],
      [columns |-> <<COL_TIENDA, ColIdVisita, ColLink>>,
       cells   |-> << {Str(StoreAB)}, {Str(Equis)}, {None, Str(HttpA)} >>],
      [columns |-> <<COL_TIENDA, ColOtra, ColLink2>>,
       cells   |-> << {Str(StoreAB)}, {Str(Equis), Str(HttpsC)},
                      {None, Str(HttpA)} >>],
      [columns |-> <<COL_TIENDA, ColOtra>>,
       cells   |-> << {Str(StoreAB), Str(StoreAWideB)},
                      {None, Num(<<"7">>), Str(HttpsC)} >>],
      [columns |-> <<ColOtra, ColLink>>,
       cells   |-> << {Str(Equis)}, {Str(HttpA)} >>],
      [columns |-> <<ColOtra>>,
       cells   |-> << {Str(Equis), Str(HttpsC)} >>] }

RECURSIVE RowsOver(_)
RowsOver(doms) ==
    IF doms = <<>> THEN {<<>>}
    ELSE {<<c>> \o r : c \in doms[1], r \in RowsOver(Tail(doms))}

EmptyTable == [columns |-> <<>>, rows |-> <<>>]

\* c in df.columns
InColumns(c, columns) == \E j \in 1..Len(columns) : columns[j] = c

ColIndex(c, columns) == SetMin({j \in 1..Len(columns) : columns[j] = c})

SetMax(S) == CHOOSE x \in S : \A y \in S : x >= y

\* A resolution that lets the last preferred name win.
autodetect_last_preferred(table, prefer) ==
    LET hits == {i \in 1..Len(prefer) : InColumns(prefer[i], table.columns)}
        urls == {j \in 1..Len(table.columns) :
                   \E r \in 1..Len(table.rows) :
                      ContainsHttp(AsStr(table.rows[r][j]))}
    IN  IF hits # {} THEN [ok |-> TRUE, col |-> prefer[SetMax(hits)]]
        ELSE IF urls # {} THEN [ok |-> TRUE, col |-> table.columns[SetMin(urls)]]
        ELSE [ok |-> FALSE, col |-> <<>>]

\* A resolution that falls back to the first column instead of raising.
autodetect_first_column(table, prefer) ==
    LET hits == {i \in 1..Len(prefer) : InColumns(prefer[i], table.columns)}
        urls == {j \in 1..Len(table.columns) :
                   \E r \in 1..Len(table.rows) :
                      ContainsHttp(AsStr(table.rows[r][j]))}
    IN  IF hits # {} THEN [ok |-> TRUE, col |-> prefer[SetMin(hits)]]
        ELSE IF urls # {} THEN [ok |-> TRUE, col |-> table.columns[SetMin(urls)]]
        ELSE [ok |-> TRUE, col |-> table.columns[1]]

\* autodetect_link_column: the first preferred name that is a header, else
\* the first column with a value matching https?://, else ValueError.
autodetect_link_column(table, prefer) ==
    LET hits == {i \in 1..Len(prefer) : InColumns(prefer[i], table.columns)}
        urls == {j \in 1..Len(table.columns) :
                   \E r \in 1..Len(table.rows) :
                      ContainsHttp(AsStr(table.rows[r][j]))}
    IN  IF hits # {} THEN [ok |-> TRUE, col |-> prefer[SetMin(hits)]]
        ELSE IF urls # {} THEN [ok |-> TRUE, col |-> table.columns[SetMin(urls)]]
        ELSE [ok |-> FALSE, col |-> <<>>]

\* df[[COL_TIENDA, link_col]] renamed to tienda, link
SelectBase(table, lc) ==
    [r \in 1..Len(table.rows) |->
        [tienda |-> table.rows[r][ColIndex(COL_TIENDA, table.columns)],
         link   |-> table.rows[r][ColIndex(lc, table.columns)]]]

\* Limpieza: dropna on both columns, astype(str).str.strip(), link != "".
DropNa(b) == SelectSeq(b, LAMBDA r : r.tienda.t # "none" /\ r.link.t # "none")

StripBoth(b) ==
    [r \in 1..Len(b) |->
        [tienda |-> Strip(AsStr(b[r].tienda)), link |-> Strip(AsStr(b[r].link))]]

\* A cleaning that keeps the rows whose link is blank.
LimpiezaSinFiltro(b) == StripBoth(DropNa(b))

Limpieza(b) == SelectSeq(StripBoth(DropNa(b)), LAMBDA r : r.link # <<>>)

\* drop_duplicates(subset=[tienda, link]): the first of equal rows is kept.
RECURSIVE DropDuplicates(_)
DropDuplicates(rows) ==
    IF rows = <<>> THEN <<>>
    ELSE LET init == DropDuplicates(SubSeq(rows, 1, Len(rows) - 1))
             last == rows[Len(rows)]
         IN  IF \E k \in 1..Len(init) : init[k] = last THEN init
             ELSE Append(init, last)

PairLess(p, q) ==
    \/ StrLess(p.tienda, q.tienda)
    \/ (p.tienda = q.tienda /\ StrLess(p.link, q.link))

RECURSIVE InsertPair(_, _)
InsertPair(sorted, x) ==
    IF sorted = <<>> THEN <<x>>
    ELSE IF PairLess(x, Head(sorted)) THEN <<x>> \o sorted
    ELSE <<Head(sorted)>> \o InsertPair(Tail(sorted), x)

\* sort_values([tienda, link])
RECURSIVE SortValues(_)
SortValues(rows) ==
    IF rows = <<>> THEN <<>>
    ELSE InsertPair(SortValues(SubSeq(rows, 1, Len(rows) - 1)), rows[Len(rows)])

\* A deduplication that forgets to sort.
DeduplicarSinOrden(b) == DropDuplicates(b)

\* Deduplicar: drop_duplicates, sort_values, reset_index.
Deduplicar(b) == SortValues(DropDuplicates(b))

\* Series.unique(): values in order of first appearance.
RECURSIVE Unique(_)
Unique(s) ==
    IF s = <<>> THEN <<>>
    ELSE LET init == Unique(SubSeq(s, 1, Len(s) - 1))
         IN  IF \E k \in 1..Len(init) : init[k] = s[Len(s)] THEN init
             ELSE Append(init, s[Len(s)])

SeqRange(s) == {s[k] : k \in 1..Len(s)}

\* A grouping that takes the links of every store.
LinksDeTodas(rows, t) == [k \in 1..Len(rows) |-> rows[k].link]

\* The links of one store, in row order.
LinksOf(rows, t) ==
    LET mine == SelectSeq(rows, LAMBDA r : r.tienda = t)
    IN  [k \in 1..Len(mine) |-> mine[k].link]

\* The group keys of groupby("tienda"), sorted.
RECURSIVE SortedStrings(_)
SortedStrings(S) ==
    IF S = {} THEN <<>>
    ELSE LET m == CHOOSE x \in S : \A y \in S : x = y \/ StrLess(x, y)
         IN  <<m>> \o SortedStrings(S \ {m})

RECURSIVE InsertGroup(_, _)
InsertGroup(sorted, x) ==
    IF sorted = <<>> THEN <<x>>
    ELSE IF StrLess(x.tienda, Head(sorted).tienda) THEN <<x>> \o sorted
    ELSE <<Head(sorted)>> \o InsertGroup(Tail(sorted), x)

\* sort_values("tienda")
RECURSIVE SortByTienda(_)
SortByTienda(groups) ==
    IF groups = <<>> THEN <<>>
    ELSE InsertGroup(SortByTienda(SubSeq(groups, 1, Len(groups) - 1)),
                     groups[Len(groups)])

\* Agrupar: groupby(tienda)[link].agg([nunique, "\n".join(unique)]),
\* sort_values("tienda").
Agrupar(rows) ==
    LET keys == SortedStrings({rows[k].tienda : k \in 1..Len(rows)})
        grouped ==
            [g \in 1..Len(keys) |->
                [tienda            |-> keys[g],
                 links_unicos      |-> Cardinality(SeqRange(LinksOf(rows, keys[g]))),
                 links_unicos_list |-> Join(Unique(LinksOf(rows, keys[g])), <<"\n">>)]]
    IN  SortByTienda(grouped)

RECURSIVE SumLinks(_)
SumLinks(groups) ==
    IF groups = <<>> THEN 0
    ELSE Head(groups).links_unicos + SumLinks(Tail(groups))

\* round(mean, 2) in hundredths, 0 for an empty frame.  (A tie at the third
\* decimal needs a group count divisible by 8.)
Promedio(groups) ==
    IF groups = <<>> THEN 0
    ELSE (200 * SumLinks(groups) + Len(groups)) \div (2 * Len(groups))

Resumen(table, lc, rows, groups) ==
    << [filas_originales             |-> Len(table.rows),
        pares_unicos                 |-> Len(rows),
        tiendas_con_al_menos_un_link |-> Len(groups),
        promedio_links_unicos_por_tienda |-> Promedio(groups),
        columna_usada_para_link      |-> lc,
        columna_tienda               |-> COL_TIENDA] >>

\* groupby("tienda", as_index=False).first() on the sorted pairs.
UnoPorTienda(rows) ==
    LET sorted == SortValues(rows)
        keys == SortedStrings({sorted[k].tienda : k \in 1..Len(sorted)})
    IN  [g \in 1..Len(keys) |->
            [tienda |-> keys[g], link |-> LinksOf(sorted, keys[g])[1]]]

ONE_PER_STORE == TRUE

NoFile == [written |-> FALSE, sheets |-> <<>>]

\* A load that skips the existence check.
DedupLoadSinExistencia ==
    /\ script = "dedup" /\ pc = "start"
    /\ \E L \in Layouts, n \in 0..MaxRows :
          \E r \in [1..n -> RowsOver(L.cells)] :
              df' = [columns |-> L.columns, rows |-> r]
    /\ pc' = "loaded" /\ err' = err
    /\ UNCHANGED <<script, exists, link_col, base, pares_unicos,
                   links_por_tienda, resumen, uno_por_tienda, salida>>
    /\ UNCHANGED <<extraerVars, compareVars>>

\* Lines 27-30: the existence check and pd.read_excel.
DedupLoad ==
    /\ script = "dedup" /\ pc = "start"
    /\ IF ~exists
       THEN /\ pc' = "error" /\ err' = "FileNotFoundError"
            /\ df' = df
       ELSE /\ \E L \in Layouts, n \in 0..MaxRows :
                  \E r \in [1..n -> RowsOver(L.cells)] :
                      df' = [columns |-> L.columns, rows |-> r]
            /\ pc' = "loaded" /\ err' = err
    /\ UNCHANGED <<script, exists, link_col, base, pares_unicos,
                   links_por_tienda, resumen, uno_por_tienda, salida>>
    /\ UNCHANGED <<extraerVars, compareVars>>

\* Lines 32-37: link column, store column check, the two-column base frame.
DedupResolve ==
    /\ script = "dedup" /\ pc = "loaded"
    /\ LET found == autodetect_link_column(df, PREFER_COLS)
       IN  IF ~found.ok
           THEN /\ pc' = "error" /\ err' = "ValueError"
                /\ UNCHANGED <<link_col, base>>
           ELSE IF ~InColumns(COL_TIENDA, df.columns)
           THEN /\ pc' = "error" /\ err' = "ValueError"
                /\ link_col' = found.col
                /\ base' = base
           ELSE /\ pc' = "base" /\ err' = err
                /\ link_col' = found.col
                /\ base' = SelectBase(df, found.col)
    /\ UNCHANGED <<script, exists, df, pares_unicos, links_por_tienda, resumen,
                   uno_por_tienda, salida>>
    /\ UNCHANGED <<extraerVars, compareVars>>

\* Lines 39-50: cleaning and deduplication.
DedupPares ==
    /\ script = "dedup" /\ pc = "base"
    /\ base' = Limpieza(base)
    /\ pares_unicos' = Deduplicar(Limpieza(base))
    /\ pc' = "pares"
    /\ UNCHANGED <<script, err, exists, df, link_col, links_por_tienda, resumen,
                   uno_por_tienda, salida>>
    /\ UNCHANGED <<extraerVars, compareVars>>

\* Lines 52-80: grouping, summary, one link per store.
DedupAgrupar ==
    /\ script = "dedup" /\ pc = "pares"
    /\ links_por_tienda' = Agrupar(pares_unicos)
    /\ resumen' = Resumen(df, link_col, pares_unicos, Agrupar(pares_unicos))
    /\ uno_por_tienda' = IF ONE_PER_STORE THEN UnoPorTienda(pares_unicos)
                         ELSE <<>>
    /\ pc' = "agrupado"
    /\ UNCHANGED <<script, err, exists, df, link_col, base, pares_unicos, salida>>
    /\ UNCHANGED <<extraerVars, compareVars>>

\* Lines 82-89: the output workbook.
DedupGuardar ==
    /\ script = "dedup" /\ pc = "agrupado"
    /\ salida' = [written |-> TRUE,
                  sheets  |-> <<"pares_unicos", "links_por_tienda", "resumen">>
                              \o (IF ONE_PER_STORE THEN <<"1link_por_tienda">>
                                  ELSE <<>>)]
    /\ pc' = "done"
    /\ UNCHANGED <<script, err, exists, dedupVars>>
    /\ UNCHANGED <<extraerVars, compareVars>>

----------------------------------------------------------------------------
(* extraer_tienda_links.py                                                 *)

FILA_INICIO == 2

URL_PREFIX ==
    <<"h", "t", "t", "p", "s", ":", "/", "/", "s", "e", "r", "v", "i", "c",
      "e", "s", ".", "t", "r", "a", "x", "r", "e", "t", "a", "i", "l", ".",
      "c", "o", "m", "/", "t", "r", "a", "x", "-", "o", "n", "e", "/", "s",
      "i", "n", "d", "i", "c", "a", "t", "e", "d", "m", "x", "/", "e", "x",
      "p", "l", "o", "r", "e", "/", "v", "i", "s", "i", "t", "/">>

GuidValue ==
    <<"0", "a", "1", "B", "2", "c", "3", "D", "-", "4", "e", "5", "F", "-",
      "6", "7", "8", "9", "-", "a", "b", "C", "D", "-", "e", "f", "0", "1",
      "2", "3", "4", "5", "6", "7", "8", "9">>

GuidPadded ==
    <<" ", "0", "a", "1", "B", "2", "c", "3", "D", "-", "4", "e", "5", "F",
      "-", "6", "7", "8", "9", "-", "a", "b", "C", "D", "-", "e", "f", "0",
      "1", "2", "3", "4", "5", "6", "7", "8", "9", "\n">>

GuidBad ==
    <<"0", "a", "1", "B", "2", "c", "3", "D", "-", "4", "e", "5", "F", "-",
      "6", "7", "8", "9", "-", "a", "b", "C", "D", "-", "e", "f", "0", "1",
      "2", "3", "4", "5", "6", "7", "8", "g">>

FormulaEs ==
    <<"=", "H", "I", "P", "E", "R", "V", "I", "N", "C", "U", "L", "O", "(",
      "\"", "h", "t", "t", "p", ":", "/", "/", "f", "\"", ",", "\"", "v",
      "e", "r", "\"", ")">>

FormulaEn ==
    <<"=", "H", "Y", "P", "E", "R", "L", "I", "N", "K", "(", "\"", "v", "e",
      "r", "\"", ",", "\"", "H", "T", "T", "P", "S", ":", "/", "/", "g",
      "\"", ")">>

FormulaSinUrl ==
    <<"=", "H", "Y", "P", "E", "R", "L", "I", "N", "K", "(", "\"", "f", "t",
      "p", ":", "/", "/", "f", "\"", ",", "\"", "v", "e", "r", "\"", ")">>

TextoConUrl ==
    <<"v", "e", "r", " ", "\"", "h", "t", "t", "p", ":", "/", "/", "f", "\"">>

HttpH == <<"h", "t", "t", "p", ":", "/", "/", "h">>

\* GUID_RE.fullmatch(s)
GuidFullMatch(s) ==
    /\ Len(s) = 36
    /\ \A k \in 1..Len(s) :
          IF k \in {9, 14, 19, 24} THEN s[k] = "-" ELSE IsHex(s[k])

\* Where re.search(r'"(https?://[^"]+)"', s, IGNORECASE) can match: an opening
\* quote at i, the scheme, one or more non-quote characters, a closing quote.
ClosingQuote(s, from) == SetMin({q \in from..Len(s) : s[q] = "\""})

UrlMatchAt(s, i) ==
    /\ s[i] = "\""
    /\ SchemeLenAt(s, i + 1) > 0
    /\ \E q \in (i + SchemeLenAt(s, i + 1) + 1)..Len(s) : s[q] = "\""
    /\ ClosingQuote(s, i + SchemeLenAt(s, i + 1) + 1)
          >= i + SchemeLenAt(s, i + 1) + 2

\* extraer_url_de_formula: group 1 of the leftmost match, else None.
extraer_url_de_formula(s) ==
    LET starts == {i \in 1..Len(s) : UrlMatchAt(s, i)}
    IN  IF starts = {} THEN None
        ELSE LET i == SetMin(starts)
                 q == ClosingQuote(s, i + SchemeLenAt(s, i + 1) + 1)
             IN  Str(SubSeq(s, i + 1, q - 1))

\* Python truthiness of a cell value: None, "" and 0 are falsy.
Truthy(cell) ==
    \/ (cell.t = "str" /\ cell.s # <<>>)
    \/ (cell.t = "num" /\ cell.s # <<"0">>)

EsFormula(v) ==
    /\ v.t = "str"
    /\ \/ StartsWith(v.s, <<"=", "H", "I", "P", "E", "R", "V", "I", "N", "C",
                            "U", "L", "O", "(">>)
       \/ StartsWith(v.s, <<"=", "H", "Y", "P", "E", "R", "L", "I", "N", "K",
                            "(">>)

\* Lines 44-55: a) the real hyperlink, b) the formula, c) the GUID.
UrlReal(celda) ==
    IF celda.hyperlink /\ Truthy(celda.target) THEN celda.target ELSE None

\* A formula step that overrides a URL already found.
UrlFormulaSiempre(celda, url) ==
    IF EsFormula(celda.value) THEN extraer_url_de_formula(celda.value.s)
    ELSE url

UrlFormula(celda, url) ==
    IF ~Truthy(url) /\ EsFormula(celda.value)
    THEN extraer_url_de_formula(celda.value.s)
    ELSE url

UrlGuid(celda, url) ==
    IF ~Truthy(url) /\ celda.value.t = "str"
       /\ GuidFullMatch(Strip(celda.value.s))
    THEN Str(URL_PREFIX \o Strip(celda.value.s))
    ELSE url

UrlDeFila(celda) == UrlGuid(celda, UrlFormula(celda, UrlReal(celda)))

\* Line 57: the row gives a pair when both are truthy.
DaPar(tienda, url) == Truthy(tienda) /\ Truthy(url)

Celda(hl, target, value) == [hyperlink |-> hl, target |-> target, value |-> value]

Fila(tienda, celda) == [tienda |-> tienda, celda |-> celda]

Encabezado ==
    Fila(Str(<<"T", "I", "E", "N", "D", "A">>),
         Celda(FALSE, None, Str(<<"I", "D">>)))

\* Data rows of the sheet: store cell (column E) and link cell (column L).
\* Rows whose link cell holds a URL in one of the three forms.
FilasConUrl ==
    { Fila(Str(StoreAB), Celda(TRUE, Str(HttpH), Str(Equis))),
      Fila(Str(StoreAB), Celda(TRUE, Str(HttpH), Str(FormulaEs))),
      Fila(Str(StoreABPadded), Celda(TRUE, Str(<<>>), Str(FormulaEs))),
      Fila(Str(StoreAB), Celda(TRUE, None, Str(GuidValue))),
      Fila(Str(StoreAB), Celda(FALSE, None, Str(FormulaEn))),
      Fila(Str(StoreAWideB), Celda(FALSE, None, Str(FormulaEs))),
      Fila(Str(StoreB), Celda(FALSE, None, Str(GuidValue))),
      Fila(Str(StoreB), Celda(FALSE, None, Str(GuidPadded))),
      Fila(Str(StoreB), Celda(TRUE, Str(HttpH), Str(GuidValue))),
      Fila(Num(<<"7">>), Celda(TRUE, Str(HttpH), None)) }

\* Rows with a missing or blank store or link, and one complete row.
FilasIncompletas ==
    { Fila(Str(StoreAB), Celda(FALSE, None, Str(FormulaSinUrl))),
      Fila(Str(StoreAB), Celda(FALSE, None, Str(TextoConUrl))),
      Fila(Str(StoreB), Celda(FALSE, None, Str(GuidBad))),
      Fila(Num(<<"0">>), Celda(FALSE, None, Num(<<"5">>))),
      Fila(None, Celda(FALSE, None, Str(GuidValue))),
      Fila(Str(<<>>), Celda(TRUE, Str(HttpH), None)),
      Fila(Str(Blank), Celda(TRUE, Str(HttpH), None)),
      Fila(Str(StoreAB), Celda(TRUE, Str(Blank), None)),
      Fila(Str(StoreAB), Celda(FALSE, None, None)),
      Fila(Str(StoreB), Celda(TRUE, Str(HttpH), Str(Equis))) }

\* The two kinds of sheet the script is run on.
Hojas == {FilasConUrl, FilasIncompletas}

DiagDe(f, url) ==
    [tienda           |-> f.tienda,
     valor_celda_L    |-> f.celda.value,
     hyperlink_target |-> IF f.celda.hyperlink THEN f.celda.target ELSE None,
     url_detectada    |-> url]

ParDe(f, url) == [tienda |-> Strip(f.tienda.s), link |-> Strip(url.s)]

\* Lines 72-76: defaultdict of lists, then sorted(agrupado.items()).
AgruparLinks(rows) ==
    LET keys == SortedStrings({rows[k].tienda : k \in 1..Len(rows)})
    IN  [g \in 1..Len(keys) |->
            [tienda          |-> keys[g],
             links_de_tienda |-> Join(LinksOf(rows, keys[g]), <<"\n">>)]]

\* Line 31: load_workbook; a missing file raises.
ExtraerLoad ==
    /\ script = "extraer" /\ pc = "start"
    /\ IF ~exists
       THEN /\ pc' = "error" /\ err' = "FileNotFoundError"
            /\ UNCHANGED <<ws, fila>>
       ELSE /\ \E F \in Hojas, n \in 0..MaxRows :
                  \E r \in [1..n -> F] : ws' = <<Encabezado>> \o r
            /\ fila' = FILA_INICIO
            /\ pc' = "filas" /\ err' = err
    /\ UNCHANGED <<script, exists, salida, pares, diag, df_unique, df_group>>
    /\ UNCHANGED <<dedupVars, compareVars>>

\* Lines 40-66: one iteration of the row loop.
ExtraerFila ==
    /\ script = "extraer" /\ pc = "filas" /\ fila <= Len(ws)
    /\ LET f == ws[fila]
           url == UrlDeFila(f.celda)
       IN  /\ pares' = IF DaPar(f.tienda, url) THEN Append(pares, ParDe(f, url))
                       ELSE pares
           /\ diag' = Append(diag, DiagDe(f, url))
    /\ fila' = fila + 1
    /\ UNCHANGED <<script, pc, err, exists, salida, ws, df_unique, df_group>>
    /\ UNCHANGED <<dedupVars, compareVars>>

\* Lines 68-76: unique sorted pairs and the links of each store.
ExtraerAgrupar ==
    /\ script = "extraer" /\ pc = "filas" /\ fila > Len(ws)
    /\ df_unique' = SortValues(DropDuplicates(pares))
    /\ df_group' = AgruparLinks(SortValues(DropDuplicates(pares)))
    /\ pc' = "agrupado"
    /\ UNCHANGED <<script, err, exists, salida, ws, fila, pares, diag>>
    /\ UNCHANGED <<dedupVars, compareVars>>

\* Lines 78-85: the output workbook.
ExtraerGuardar ==
    /\ script = "extraer" /\ pc = "agrupado"
    /\ salida' = [written |-> TRUE,
                  sheets  |-> <<"pares_unicos", "links_por_tienda",
                                "diagnostico">>]
    /\ pc' = "done"
    /\ UNCHANGED <<script, err, exists, extraerVars>>
    /\ UNCHANGED <<dedupVars, compareVars>>

----------------------------------------------------------------------------
(* app_links.py: comparison of the stores of two files                     *)

StoreNames == {StoreAB, StoreAWideB, StoreB, Equis}

\* compare(storesA, storesB): each part as a sorted sequence.
Matched(A, B) == SortedStrings(A \cap B)
OnlyA(A, B) == SortedStrings(A \ B)
\* A difference that forgets to remove the common stores.
OnlyBTodas(A, B) == SortedStrings(B)
OnlyB(A, B) == SortedStrings(B \ A)

Comparar ==
    /\ script = "comparar" /\ pc = "start"
    /\ \E A \in SUBSET StoreNames, B \in SUBSET StoreNames :
          /\ storesA' = A /\ storesB' = B
          /\ matched' = Matched(A, B)
          /\ onlyA' = OnlyA(A, B)
          /\ onlyB' = OnlyB(A, B)
    /\ pc' = "done"
    /\ UNCHANGED <<script, err, exists, salida>>
    /\ UNCHANGED <<dedupVars, extraerVars>>

----------------------------------------------------------------------------

Init ==
    /\ script \in {"dedup", "extraer", "comparar"}
    /\ exists \in BOOLEAN
    /\ (script = "comparar" => exists)
    /\ pc = "start" /\ err = "" /\ salida = NoFile
    /\ df = EmptyTable /\ link_col = <<>> /\ base = <<>>
    /\ pares_unicos = <<>> /\ links_por_tienda = <<>> /\ resumen = <<>>
    /\ uno_por_tienda = <<>>
    /\ ws = <<>> /\ fila = 0 /\ pares = <<>> /\ diag = <<>>
    /\ df_unique = <<>> /\ df_group = <<>>
    /\ storesA = {} /\ storesB = {} /\ matched = <<>> /\ onlyA = <<>>
    /\ onlyB = <<>>

Next ==
    \/ DedupLoad \/ DedupResolve \/ DedupPares \/ DedupAgrupar \/ DedupGuardar
    \/ ExtraerLoad \/ ExtraerFila \/ ExtraerAgrupar \/ ExtraerGuardar
    \/ Comparar

Spec == Init /\ [][Next]_vars

----------------------------------------------------------------------------
(* Properties                                                              *)

\* Lexicographic order by code point, stated position by position.
LexLT(a, b) ==
    \E i \in 1..Len(b) :
        /\ i - 1 <= Len(a)
        /\ \A j \in 1..(i - 1) : a[j] = b[j]
        /\ (i = Len(a) + 1 \/ (i <= Len(a) /\ CodePoint[a[i]] < CodePoint[b[i]]))

PairLT(p, q) ==
    LexLT(p.tienda, q.tienda) \/ (p.tienda = q.tienda /\ LexLT(p.link, q.link))

\* s without its leading and trailing whitespace, by first and last position.
Trimmed(s) ==
    LET keep == {i \in 1..Len(s) : ~IsSpace(s[i])}
    IN  IF keep = {} THEN <<>> ELSE SubSeq(s, SetMin(keep), SetMax(keep))

\* Trimmed, and every whitespace run inside replaced by one space.
RECURSIVE CollapseRuns(_)
CollapseRuns(s) ==
    IF s = <<>> THEN <<>>
    ELSE IF IsSpace(Head(s))
    THEN IF Len(s) > 1 /\ IsSpace(s[2]) THEN CollapseRuns(Tail(s))
         ELSE <<" ">> \o CollapseRuns(Tail(s))
    ELSE <<Head(s)>> \o CollapseRuns(Tail(s))

Collapsed(s) == CollapseRuns(Trimmed(s))

LowerStr(s) == [i \in 1..Len(s) |-> Lower(s[i])]

\* s has http:// or https:// somewhere, in any letter case.
HasHttpAnyCase(s) ==
    \E i \in 1..Len(s) : \E n \in {7, 8} :
        /\ i + n - 1 <= Len(s)
        /\ LowerStr(SubSeq(s, i, i + n - 1))
              \in { <<"h", "t", "t", "p", ":", "/", "/">>,
                    <<"h", "t", "t", "p", "s", ":", "/", "/">> }

DedupHasPairs == script = "dedup" /\ pc \in {"pares", "agrupado", "done"}
DedupHasGroups == script = "dedup" /\ pc \in {"agrupado", "done"}
ExtraerHasGroups == script = "extraer" /\ pc \in {"agrupado", "done"}

\* out holds exactly the distinct rows of in, once each, strictly ascending.
IsDedupOf(out, in) ==
    /\ SeqRange(out) = SeqRange(in)
    /\ \A i, j \in 1..Len(out) : i # j => out[i] # out[j]
    /\ \A i \in 1..(Len(out) - 1) : PairLT(out[i], out[i + 1])

\* C1: the unique pairs are exactly the distinct cleaned pairs, each once, in
\* strictly ascending (store, link) order, and deduplicating them again
\* changes nothing.
C1_DedupSortedUnique ==
    /\ DedupHasPairs =>
          /\ IsDedupOf(pares_unicos, base)
          /\ Deduplicar(pares_unicos) = pares_unicos
    /\ ExtraerHasGroups =>
          /\ IsDedupOf(df_unique, pares)
          /\ SortValues(DropDuplicates(df_unique)) = df_unique

C1_Witness ==
    /\ script = "dedup" /\ pc = "pares"
    /\ Len(base) = 3 /\ Len(pares_unicos) = 2
    /\ base[1] # pares_unicos[1]

\* C2: every unique pair of either script has a non-empty store and a
\* non-empty link.
C2_PairsNonEmpty ==
    /\ DedupHasPairs =>
          \A k \in 1..Len(pares_unicos) :
              pares_unicos[k].tienda # <<>> /\ pares_unicos[k].link # <<>>
    /\ ExtraerHasGroups =>
          \A k \in 1..Len(df_unique) :
              df_unique[k].tienda # <<>> /\ df_unique[k].link # <<>>

\* The links paired with store t, in the order they first occur in rows.
LinkSet(rows, t) == {rows[k].link : k \in {m \in 1..Len(rows) : rows[m].tienda = t}}

FirstOcc(rows, t, l) ==
    SetMin({k \in 1..Len(rows) : rows[k].tienda = t /\ rows[k].link = l})

ExpectedLinks(rows, t) ==
    [i \in 1..Cardinality(LinkSet(rows, t)) |->
        CHOOSE l \in LinkSet(rows, t) :
            Cardinality({m \in LinkSet(rows, t) :
                            FirstOcc(rows, t, m) < FirstOcc(rows, t, l)}) = i - 1]

StoresOf(rows) == {rows[k].tienda : k \in 1..Len(rows)}

\* C3: one group per store of the unique pairs, groups ascending by store,
\* each group's links are the store's links once each in first-occurrence
\* order, and the unique link count is their number.
C3_GroupsByStore ==
    /\ DedupHasGroups =>
          /\ Len(links_por_tienda) = Cardinality(StoresOf(pares_unicos))
          /\ StoresOf(links_por_tienda) = StoresOf(pares_unicos)
          /\ \A g \in 1..(Len(links_por_tienda) - 1) :
                LexLT(links_por_tienda[g].tienda, links_por_tienda[g + 1].tienda)
          /\ \A g \in 1..Len(links_por_tienda) :
                LET e == ExpectedLinks(pares_unicos, links_por_tienda[g].tienda)
                IN  /\ links_por_tienda[g].links_unicos_list = Join(e, <<"\n">>)
                    /\ links_por_tienda[g].links_unicos = Len(e)
    /\ ExtraerHasGroups =>
          /\ Len(df_group) = Cardinality(StoresOf(df_unique))
          /\ StoresOf(df_group) = StoresOf(df_unique)
          /\ \A g \in 1..(Len(df_group) - 1) :
                LexLT(df_group[g].tienda, df_group[g + 1].tienda)
          /\ \A g \in 1..Len(df_group) :
                df_group[g].links_de_tienda
                   = Join(ExpectedLinks(df_unique, df_group[g].tienda), <<"\n">>)

C3_Witness ==
    /\ script = "dedup" /\ pc = "agrupado"
    /\ Len(links_por_tienda) = 2
    /\ links_por_tienda[2].links_unicos = 2

\* The link column has been resolved (or resolution has failed).
DedupResolved == script = "dedup" /\ exists /\ pc \notin {"start", "loaded"}

ColumnHasHttp(table, j) ==
    \E r \in 1..Len(table.rows) : HasHttpAnyCase(AsStr(table.rows[r][j]))

NoPreferred(table) ==
    \A i \in 1..Len(PREFER_COLS) : ~InColumns(PREFER_COLS[i], table.columns)

\* A header starting with "link" in any letter case.
LinkPrefixed(c) == Len(c) >= 4 /\ LowerStr(SubSeq(c, 1, 4)) = ColLink

\* C4 as stated: link-prefixed headers first (all of them, in table order),
\* then the priority list, then the first column holding a URL, else failure.
C4_LinkPrefixFirst ==
    DedupResolved =>
        LET prefixed == SelectSeq(df.columns, LinkPrefixed)
        IN  IF prefixed # <<>> THEN <<link_col>> = prefixed
            ELSE IF ~NoPreferred(df)
            THEN \E i \in 1..Len(PREFER_COLS) :
                    /\ link_col = PREFER_COLS[i]
                    /\ InColumns(link_col, df.columns)
                    /\ \A j \in 1..(i - 1) : ~InColumns(PREFER_COLS[j], df.columns)
            ELSE IF \E j \in 1..Len(df.columns) : ColumnHasHttp(df, j)
            THEN \E j \in 1..Len(df.columns) :
                    /\ link_col = df.columns[j]
                    /\ ColumnHasHttp(df, j)
                    /\ \A k \in 1..(j - 1) : ~ColumnHasHttp(df, k)
            ELSE pc = "error" /\ link_col = <<>>

\* C4 amended: the first priority-list name (id_visita (URL extraida), link,
\* id_visita) that is a header; else the first column, left to right, with a
\* value holding http:// or https://; else ValueError.  One column is
\* returned; "link" wins over id_visita but not over the URL-extraida column.
C4_PriorityThenScan ==
    DedupResolved =>
        /\ IF ~NoPreferred(df)
           THEN \E i \in 1..Len(PREFER_COLS) :
                   /\ link_col = PREFER_COLS[i]
                   /\ InColumns(link_col, df.columns)
                   /\ \A j \in 1..(i - 1) : ~InColumns(PREFER_COLS[j], df.columns)
           ELSE IF \E j \in 1..Len(df.columns) : ColumnHasHttp(df, j)
           THEN \E j \in 1..Len(df.columns) :
                   /\ link_col = df.columns[j]
                   /\ ColumnHasHttp(df, j)
                   /\ \A k \in 1..(j - 1) : ~ColumnHasHttp(df, k)
           ELSE pc = "error" /\ err = "ValueError" /\ link_col = <<>>
        /\ InColumns(ColUrlExtraida, df.columns) => link_col = ColUrlExtraida
        /\ (InColumns(ColLink, df.columns) /\ ~InColumns(ColUrlExtraida, df.columns))
              => link_col = ColLink

C4_Witness ==
    /\ script = "dedup" /\ pc = "base"
    /\ InColumns(ColLink, df.columns)
    /\ link_col = ColUrlExtraida

\* The (store, link) cells of the rows of df that survive the cleaning.
DedupSurvivors ==
    LET ti == ColIndex(COL_TIENDA, df.columns)
        li == ColIndex(link_col, df.columns)
    IN  { <<df.rows[r][ti], df.rows[r][li]>> :
            r \in {q \in 1..Len(df.rows) :
                     /\ df.rows[q][ti].t # "none"
                     /\ df.rows[q][li].t # "none"
                     /\ Trimmed(AsStr(df.rows[q][li])) # <<>>} }

\* The (store, url) cells of the scanned rows that give a pair.
ExtraerSurvivors ==
    { <<diag[k].tienda, diag[k].url_detectada>> :
        k \in {q \in 1..Len(diag) :
                 Truthy(diag[q].tienda) /\ Truthy(diag[q].url_detectada)} }

C6_EveryStoreHasGroup ==
    /\ DedupHasGroups =>
          \A r \in 1..Len(df.rows) :
              LET c == df.rows[r][ColIndex(COL_TIENDA, df.columns)]
              IN  (c.t # "none" /\ Trimmed(AsStr(c)) # <<>>)
                     => Trimmed(AsStr(c)) \in StoresOf(links_por_tienda)
    /\ ExtraerHasGroups =>
          \A k \in 1..Len(diag) :
              Truthy(diag[k].tienda)
                 => Trimmed(diag[k].tienda.s) \in StoresOf(df_group)

\* C6 amended: the groups are exactly the stores with at least one row that
\* gives a pair; a store whose rows all lack a link has no group, and every
\* group of dedup_por_tienda counts at least one link.
C6_OnlyStoresWithLinks ==
    /\ DedupHasGroups =>
          /\ StoresOf(links_por_tienda)
                = {Trimmed(AsStr(c[1])) : c \in DedupSurvivors}
          /\ \A g \in 1..Len(links_por_tienda) :
                /\ links_por_tienda[g].links_unicos >= 1
                /\ links_por_tienda[g].links_unicos_list # <<>>
          /\ resumen[1].tiendas_con_al_menos_un_link
                = Cardinality({Trimmed(AsStr(c[1])) : c \in DedupSurvivors})
    /\ ExtraerHasGroups =>
          StoresOf(df_group) = {Trimmed(c[1].s) : c \in ExtraerSurvivors}

C6_Witness ==
    /\ script = "dedup" /\ pc = "agrupado"
    /\ \E r \in 1..Len(df.rows) :
          /\ df.rows[r][ColIndex(COL_TIENDA, df.columns)] = Str(StoreAB)
          /\ StoreAB \notin StoresOf(links_por_tienda)
    /\ StoresOf(links_por_tienda) = {StoreB}

\* The three checks of dedup_por_tienda.main before pair extraction.
DedupChecksPass ==
    /\ exists
    /\ \/ ~NoPreferred(df)
       \/ \E j \in 1..Len(df.columns) : ColumnHasHttp(df, j)
    /\ InColumns(COL_TIENDA, df.columns)

\* C7: a missing file, an unresolved link column or a missing store column
\* ends the run in an error before pair extraction with no workbook written;
\* a workbook exists only if the three checks passed.
C7_NoOutputOnError ==
    script = "dedup" =>
        /\ salida.written => (DedupChecksPass /\ pc = "done")
        /\ (pc \notin {"start", "loaded"} /\ ~DedupChecksPass) =>
              /\ pc = "error"
              /\ err \in {"FileNotFoundError", "ValueError"}
        /\ pc = "error" =>
              /\ ~salida.written
              /\ base = <<>> /\ pares_unicos = <<>> /\ links_por_tienda = <<>>
              /\ resumen = <<>> /\ uno_por_tienda = <<>>
              /\ ~DedupChecksPass

C7_Witness ==
    /\ script = "dedup" /\ pc = "error" /\ err = "ValueError"
    /\ link_col = ColLink
    /\ ~InColumns(COL_TIENDA, df.columns)

ZeroRowsWithStore ==
    /\ DedupResolved
    /\ df.rows = <<>>
    /\ InColumns(COL_TIENDA, df.columns)

ZeroResults ==
    /\ pc \in {"pares", "agrupado", "done"} => pares_unicos = <<>>
    /\ pc \in {"agrupado", "done"} =>
          /\ links_por_tienda = <<>>
          /\ resumen[1].pares_unicos = 0
          /\ resumen[1].tiendas_con_al_menos_un_link = 0
          /\ resumen[1].promedio_links_unicos_por_tienda = 0

\* C8 as stated: a zero-row table with the store header never raises and
\* gives zero pairs, zero groups and an average of 0, whatever the other
\* headers are.
C8_EmptyTableNeverFails ==
    ZeroRowsWithStore => (pc # "error" /\ ZeroResults)

\* C8 amended: with the store header and a priority-list link header, a
\* zero-row table raises nothing and gives zero pairs, zero groups and an
\* average of 0; with no priority-list header the run ends in ValueError.
C8_EmptyTableNeedsPreferred ==
    ZeroRowsWithStore =>
        IF NoPreferred(df)
        THEN pc = "error" /\ err = "ValueError" /\ ~salida.written
        ELSE pc # "error" /\ ZeroResults

C8_Witness ==
    /\ ZeroRowsWithStore /\ pc = "done"
    /\ salida.written
    /\ resumen[1].promedio_links_unicos_por_tienda = 0

StrictlyAscending(s) == \A i \in 1..(Len(s) - 1) : LexLT(s[i], s[i + 1])

\* C9: matched, onlyA and onlyB are the intersection and the two
\* differences, pairwise disjoint, covering the union, each strictly
\* ascending; the comparison never fails.
C9_ComparePartition ==
    (script = "comparar" /\ pc = "done") =>
        /\ SeqRange(matched) = storesA \cap storesB
        /\ SeqRange(onlyA) = storesA \ storesB
        /\ SeqRange(onlyB) = storesB \ storesA
        /\ SeqRange(matched) \cap SeqRange(onlyA) = {}
        /\ SeqRange(matched) \cap SeqRange(onlyB) = {}
        /\ SeqRange(onlyA) \cap SeqRange(onlyB) = {}
        /\ SeqRange(matched) \cup SeqRange(onlyA) \cup SeqRange(onlyB)
              = storesA \cup storesB
        /\ StrictlyAscending(matched)
        /\ StrictlyAscending(onlyA)
        /\ StrictlyAscending(onlyB)
        /\ err = ""

C9_Witness ==
    /\ script = "comparar" /\ pc = "done"
    /\ Len(matched) = 2 /\ Len(onlyA) = 1 /\ Len(onlyB) = 1

\* The first double-quoted http(s) URL of s: u sits between two quotes,
\* starts with the scheme, goes on for at least one character, holds no
\* quote, and no earlier opening quote starts such a URL.
QuotedUrlAt(s, i, j) ==
    /\ i < j /\ s[i] = "\"" /\ s[j] = "\""
    /\ \A k \in (i + 1)..(j - 1) : s[k] # "\""
    /\ \E n \in {7, 8} :
          /\ j - i - 1 > n
          /\ LowerStr(SubSeq(s, i + 1, i + n))
                \in { <<"h", "t", "t", "p", ":", "/", "/">>,
                      <<"h", "t", "t", "p", "s", ":", "/", "/">> }

IsFirstQuotedUrl(s, u) ==
    \E i, j \in 1..Len(s) :
        /\ QuotedUrlAt(s, i, j)
        /\ u = SubSeq(s, i + 1, j - 1)
        /\ \A i2 \in 1..(i - 1) : \A j2 \in 1..Len(s) : ~QuotedUrlAt(s, i2, j2)

HasQuotedUrl(s) == \E i, j \in 1..Len(s) : QuotedUrlAt(s, i, j)

\* The URL the stated precedence gives for one scanned row.
UrlByPrecedence(f, url) ==
    IF f.celda.hyperlink /\ f.celda.target.t = "str" /\ f.celda.target.s # <<>>
    THEN url = f.celda.target
    ELSE IF EsFormula(f.celda.value) /\ HasQuotedUrl(f.celda.value.s)
    THEN url.t = "str" /\ IsFirstQuotedUrl(f.celda.value.s, url.s)
    ELSE IF f.celda.value.t = "str" /\ GuidFullMatch(Trimmed(f.celda.value.s))
    THEN url = Str(URL_PREFIX \o Trimmed(f.celda.value.s))
    ELSE url = None

\* C10: each scanned row's URL follows the precedence hyperlink, formula,
\* GUID; a row gives a pair exactly when store and URL are truthy; every
\* scanned row gets a diagnostic entry.
C10_UrlPrecedence ==
    (script = "extraer" /\ pc \in {"filas", "agrupado", "done"}) =>
        /\ Len(diag) = fila - FILA_INICIO
        /\ \A k \in 1..Len(diag) :
              LET f == ws[k + FILA_INICIO - 1]
              IN  /\ diag[k].tienda = f.tienda
                  /\ diag[k].valor_celda_L = f.celda.value
                  /\ UrlByPrecedence(f, diag[k].url_detectada)
        /\ Len(pares) = Cardinality({k \in 1..Len(diag) :
                                        /\ Truthy(diag[k].tienda)
                                        /\ Truthy(diag[k].url_detectada)})
        /\ pc # "filas" => fila = Len(ws) + 1

C10_Witness ==
    /\ script = "extraer" /\ pc = "agrupado"
    /\ Len(diag) = 3 /\ Len(pares) = 3
    /\ diag[1].url_detectada = Str(HttpH) /\ EsFormula(diag[1].valor_celda_L)
    /\ diag[2].url_detectada.s = <<"H", "T", "T", "P", "S", ":", "/", "/", "g">>
    /\ diag[3].url_detectada = Str(URL_PREFIX \o GuidValue)
    /\ diag[3].valor_celda_L = Str(GuidPadded)

====
